---------------------------- MODULE Spec2Model ----------------------------
(***************************************************************************)
(* ReferralGuard: the risk-scoring routes and the recovery-plan route.     *)
(*                                                                         *)
(* Numbers.  JavaScript numbers are modelled as integers at a named scale: *)
(* raw risk points in fifths of a point (RawScale), sigmoid values in      *)
(* millionths (Micro).  The inputs are drawn from grids on which every     *)
(* product and quotient of the code is exact at that scale.  NaN is the    *)
(* distinguished value NaN; every arithmetic operator propagates it and    *)
(* every comparison with it is false, as in JavaScript.                    *)
(***************************************************************************)
EXTENDS Integers, Sequences, FiniteSets, TLC

\* ------------------------------------------------------------------ bounds
\* providerRevenue ranges over MaxRevenueSteps strides from 0, each of
\* RevenueStride units of revenue
MaxRevenueSteps == 8
RevenueStride == 21
\* marketSharePercentage is drawn in steps of MarketShareStep
MarketShareStep == 4
\* batch positions 0..MaxIndex: the route scores at most 15 providers (slice(0, 15))
MaxIndex == 14
\* marketPosition ranges over 0..MaxMarketPosition
MaxMarketPosition == 3
\* cohorts of 0..MaxCohort providers
MaxCohort == 24
\* the stored data has at most MaxRows rows
MaxRows == 2
\* of the Math.random draws of a request only the first MaxLowDraws may be
\* other than 0.5
MaxLowDraws == 2
\* dashboard-summary GETs in flight at once
MaxRequests == 2
\* analyze: the longest providers array of a request
MaxAnalyzeProviders == 6

\* --------------------------------------------------------- JavaScript numbers
NaN == -999999999
\* Infinity is a value of its own, above every number
Infinity == 999999999

IsNaN(x) == x = NaN

Add(a, b) == IF IsNaN(a) \/ IsNaN(b) THEN NaN ELSE a + b

\* a > b in JavaScript: false when either side is NaN
Gt(a, b) == ~IsNaN(a) /\ ~IsNaN(b) /\ a > b

MathMin(a, b) == IF IsNaN(a) \/ IsNaN(b) THEN NaN ELSE IF a < b THEN a ELSE b

MathMax(a, b) == IF IsNaN(a) \/ IsNaN(b) THEN NaN ELSE IF a > b THEN a ELSE b

\* a % b in JavaScript: the remainder takes the sign of the dividend
JsRem(a, b) ==
  IF IsNaN(a) \/ IsNaN(b) THEN NaN
  ELSE IF a >= 0 THEN a % b ELSE 0 - ((0 - a) % b)

\* Math.round of the rational n / d (d > 0): the nearest integer, ties upward
MathRound(n, d) == IF IsNaN(n) THEN NaN ELSE (2 * n + d) \div (2 * d)

\* ----------------------------------------------------------------- strings
\* A string is a sequence of one-character strings; <<>> is the empty string
\* and also stands for an absent field (both are falsy where they are read).
DigitChars == {"0", "1", "2", "3", "4", "5", "6", "7", "8", "9"}

DigitValue(c) ==
  CASE c = "0" -> 0 [] c = "1" -> 1 [] c = "2" -> 2 [] c = "3" -> 3 [] c = "4" -> 4
    [] c = "5" -> 5 [] c = "6" -> 6 [] c = "7" -> 7 [] c = "8" -> 8 [] c = "9" -> 9

\* s.slice(-2)
sliceLast2(s) == IF Len(s) <= 2 THEN s ELSE SubSeq(s, Len(s) - 1, Len(s))

\* s.startsWith(p)
startsWith(s, p) == Len(s) >= Len(p) /\ SubSeq(s, 1, Len(p)) = p

RECURSIVE SkipSpaces(_)
SkipSpaces(s) == IF s # <<>> /\ Head(s) = " " THEN SkipSpaces(Tail(s)) ELSE s

\* the value of the longest prefix of decimal digits of s, continuing from acc
RECURSIVE DigitPrefix(_, _)
DigitPrefix(s, acc) ==
  IF s # <<>> /\ Head(s) \in DigitChars
  THEN DigitPrefix(Tail(s), 10 * acc + DigitValue(Head(s)))
  ELSE acc

\* parseInt(s): leading blanks, an optional sign, then decimal digits up to the
\* first other character; NaN when no digit follows.  (No "0x" prefix occurs in
\* the alphabet of the model.)
parseInt(s) ==
  LET t == SkipSpaces(s)
      neg == t # <<>> /\ Head(t) = "-"
      u == IF t # <<>> /\ Head(t) \in {"-", "+"} THEN Tail(t) ELSE t
  IN IF u = <<>> \/ Head(u) \notin DigitChars THEN NaN
     ELSE IF neg THEN 0 - DigitPrefix(u, 0) ELSE DigitPrefix(u, 0)

\* ------------------------------------------- dashboard-summary: the scorer
RawScale == 5
Micro == 1000000

minRaw == 10
maxRaw == 80
minDisplay == 55
maxDisplay == 95

specialtyRisk(specialty) ==
  CASE specialty = "Emergency Medicine" -> 8
    [] specialty = "Cardiology" -> 6
    [] specialty = "Internal Medicine" -> 4
    [] specialty = "Obstetrics & Gynecology" -> 5
    [] specialty = "Pathology" -> 7
    [] specialty = "Family Medicine" -> 3
    [] specialty = "Orthopedic Surgery" -> 6
    [] specialty = "Anesthesiology" -> 5
    [] OTHER -> 0

\* Math.min(30, (market.providerRevenue / 1000000) * 5), in fifths of a point
revenueRisk(market) ==
  IF IsNaN(market.providerRevenue) THEN NaN
  ELSE MathMin(30 * RawScale, (market.providerRevenue * 5 * RawScale) \div 1000000)

marketShareRisk_Inverted(market) ==
  MathMax(0, (market.marketSharePercentage * 4 * RawScale) \div 10)

\* Math.max(0, (100 - market.marketSharePercentage) * 0.4)
marketShareRisk(market) ==
  IF IsNaN(market.marketSharePercentage) THEN NaN
  ELSE MathMax(0, ((100 - market.marketSharePercentage) * 4 * RawScale) \div 10)

\* Math.min(20, (100 - market.marketSharePercentage) * 0.2)
leakageRisk(market) ==
  IF IsNaN(market.marketSharePercentage) THEN NaN
  ELSE MathMin(20 * RawScale, ((100 - market.marketSharePercentage) * 2 * RawScale) \div 10)

\* (index * 7 + parseInt(market.providerNPI?.slice(-2) || '0')) % 10
variationFactor(market, index) ==
  LET tail == sliceLast2(market.providerNPI)
  IN JsRem(Add(index * 7, parseInt(IF tail = <<>> THEN <<"0">> ELSE tail)), 10)

\* specialtyRisk[market.specialty] || 4
specRisk(market) ==
  IF specialtyRisk(market.specialty) = 0 THEN 4 ELSE specialtyRisk(market.specialty)

rawScore(market, index) ==
  Add(Add(Add(Add(revenueRisk(market), marketShareRisk(market)), leakageRisk(market)),
          specRisk(market) * RawScale),
      IF IsNaN(variationFactor(market, index)) THEN NaN
      ELSE variationFactor(market, index) * RawScale)

\* 1 / (1 + Math.exp(-6 * (normalized - 0.5))) in millionths, tabulated at
\* normalized = k / 350, k = 0..350 (entry k + 1): the points the grid reaches
SigmoidTable ==
  << 47426, 48206, 48999, 49804, 50622, 51452, 52295, 53151, 54021, 54903,
     55800, 56710, 57634, 58572, 59524, 60491, 61473, 62469, 63481, 64508,
     65550, 66608, 67682, 68772, 69878, 71000, 72139, 73295, 74468, 75658,
     76866, 78091, 79334, 80595, 81875, 83173, 84489, 85825, 87179, 88553,
     89947, 91360, 92793, 94246, 95720, 97214, 98729, 100265, 101822, 103400,
     105001, 106623, 108267, 109933, 111621, 113333, 115067, 116824, 118604, 120408,
     122236, 124087, 125962, 127862, 129785, 131734, 133707, 135705, 137729, 139777,
     141851, 143951, 146076, 148227, 150405, 152609, 154839, 157095, 159379, 161689,
     164026, 166390, 168782, 171201, 173647, 176120, 178622, 181151, 183707, 186292,
     188905, 191545, 194214, 196911, 199636, 202389, 205171, 207980, 210818, 213685,
     216579, 219502, 222453, 225432, 228440, 231475, 234539, 237631, 240750, 243898,
     247073, 250276, 253506, 256764, 260049, 263361, 266700, 270066, 273459, 276878,
     280324, 283795, 287292, 290815, 294363, 297937, 301535, 305158, 308805, 312475,
     316170, 319888, 323629, 327393, 331179, 334987, 338817, 342668, 346539, 350432,
     354344, 358275, 362226, 366196, 370184, 374189, 378212, 382252, 386308, 390380,
     394468, 398570, 402686, 406816, 410960, 415116, 419284, 423463, 427654, 431855,
     436066, 440286, 444515, 448752, 452996, 457248, 461505, 465768, 470036, 474308,
     478585, 482864, 487146, 491429, 495714, 500000, 504286, 508571, 512854, 517136,
     521415, 525692, 529964, 534232, 538495, 542752, 547004, 551248, 555485, 559714,
     563934, 568145, 572346, 576537, 580716, 584884, 589040, 593184, 597314, 601430,
     605532, 609620, 613692, 617748, 621788, 625811, 629816, 633804, 637774, 641725,
     645656, 649568, 653461, 657332, 661183, 665013, 668821, 672607, 676371, 680112,
     683830, 687525, 691195, 694842, 698465, 702063, 705637, 709185, 712708, 716205,
     719676, 723122, 726541, 729934, 733300, 736639, 739951, 743236, 746494, 749724,
     752927, 756102, 759250, 762369, 765461, 768525, 771560, 774568, 777547, 780498,
     783421, 786315, 789182, 792020, 794829, 797611, 800364, 803089, 805786, 808455,
     811095, 813708, 816293, 818849, 821378, 823880, 826353, 828799, 831218, 833610,
     835974, 838311, 840621, 842905, 845161, 847391, 849595, 851773, 853924, 856049,
     858149, 860223, 862271, 864295, 866293, 868266, 870215, 872138, 874038, 875913,
     877764, 879592, 881396, 883176, 884933, 886667, 888379, 890067, 891733, 893377,
     894999, 896600, 898178, 899735, 901271, 902786, 904280, 905754, 907207, 908640,
     910053, 911447, 912821, 914175, 915511, 916827, 918125, 919405, 920666, 921909,
     923134, 924342, 925532, 926705, 927861, 929000, 930122, 931228, 932318, 933392,
     934450, 935492, 936519, 937531, 938527, 939509, 940476, 941428, 942366, 943290,
     944200, 945097, 945979, 946849, 947705, 948548, 949378, 950196, 951001, 951794,
     952574 >>

\* normalizeToDisplay(raw), raw in fifths of a point
normalizeToDisplay(raw) ==
  IF IsNaN(raw) THEN NaN
  ELSE LET clampedRaw == MathMax(minRaw * RawScale, MathMin(maxRaw * RawScale, raw))
           \* normalized = k / ((maxRaw - minRaw) * RawScale)
           k == clampedRaw - minRaw * RawScale
           sigmoidNormalized == SigmoidTable[k + 1]
           finalScore == sigmoidNormalized * (maxDisplay - minDisplay) + minDisplay * Micro
       IN MathRound(finalScore, Micro)

calculateRiskScore_PositionBonus(market, index) ==
  normalizeToDisplay(Add(rawScore(market, index), index * RawScale))

calculateRiskScore(market, index) == normalizeToDisplay(rawScore(market, index))

urgencyOf_Inclusive(displayRiskScore) ==
  IF ~IsNaN(displayRiskScore) /\ displayRiskScore >= 85 THEN "HIGH"
  ELSE IF Gt(displayRiskScore, 75) THEN "MEDIUM"
  ELSE "LOW"

urgencyOf(displayRiskScore) ==
  IF Gt(displayRiskScore, 85) THEN "HIGH"
  ELSE IF Gt(displayRiskScore, 75) THEN "MEDIUM"
  ELSE "LOW"

interventionTypeOf_Inclusive(displayRiskScore) ==
  IF ~IsNaN(displayRiskScore) /\ displayRiskScore >= 90 THEN "Contract Renegotiation"
  ELSE IF Gt(displayRiskScore, 80) THEN "Competitive Response"
  ELSE IF Gt(displayRiskScore, 70) THEN "Service Expansion"
  ELSE "Relationship Building"

\* the local variable interventionType of the map callback
interventionTypeOf(displayRiskScore) ==
  IF Gt(displayRiskScore, 90) THEN "Contract Renegotiation"
  ELSE IF Gt(displayRiskScore, 80) THEN "Competitive Response"
  ELSE IF Gt(displayRiskScore, 70) THEN "Service Expansion"
  ELSE "Relationship Building"

interventionTypes ==
  << "Relationship Building", "Contract Renegotiation", "Service Expansion",
     "Technology Integration", "Performance Incentives", "Competitive Response",
     "Market Expansion", "Provider Retention", "Quality Improvement" >>

competitors ==
  << "Regional Medical Center", "City Hospital", "Metro Health System",
     "Community Healthcare", "University Medical Center", "Memorial Hospital",
     "St. Mary's Medical", "General Hospital", "Medical Center East",
     "Healthcare Partners", "Valley Regional", "Central Medical Group" >>

\* array[i] for a JavaScript array held as a sequence: undefined outside 0..length-1
ArrayAt(array, i) ==
  IF ~IsNaN(i) /\ i >= 0 /\ i < Len(array) THEN array[i + 1] ELSE "undefined"

\* market.providerNPI ? parseInt(market.providerNPI.slice(-2)) : index
nameHash(market, index) ==
  IF market.providerNPI # <<>> THEN parseInt(sliceLast2(market.providerNPI)) ELSE index

interventionIndex(market, index) == JsRem(nameHash(market, index), Len(interventionTypes))

competitorIndex(market, index) == JsRem(nameHash(market, index), Len(competitors))

revenueAtRiskOf_HalfRevenue(market) ==
  (IF IsNaN(market.providerRevenue) THEN 0 ELSE market.providerRevenue) * 50

\* (market.providerRevenue || 0) * 0.15, in cents
revenueAtRiskOf(market) ==
  (IF IsNaN(market.providerRevenue) THEN 0 ELSE market.providerRevenue) * 15

\* The object the map callback returns for one provider, without its name and
\* without the three trend arrays it draws from Math.random (both are added
\* where the whole request is modelled).  revenue is in tenths of a million.
ScoredProvider(market, index) ==
  LET displayRiskScore == calculateRiskScore(market, index)
  IN [ id |-> index + 1,
       specialty |-> IF market.specialty = "" THEN "Unknown Specialty" ELSE market.specialty,
       leakageRate |-> IF IsNaN(market.marketSharePercentage) THEN NaN
                       ELSE 100 - market.marketSharePercentage,
       trend |-> IF index % 2 = 0 THEN "up" ELSE "down",
       revenue |-> MathRound((IF IsNaN(market.providerRevenue) THEN 0
                              ELSE market.providerRevenue) * 10, 1000000),
       marketPosition |-> 1,
       providerNPI |-> market.providerNPI,
       riskScore |-> displayRiskScore,
       revenueAtRisk |-> revenueAtRiskOf(market),
       interventionType |-> ArrayAt(interventionTypes, interventionIndex(market, index)),
       urgency |-> urgencyOf(displayRiskScore),
       competitorThreat |-> ArrayAt(competitors, competitorIndex(market, index)),
       marketShare |-> market.marketSharePercentage ]

\* The callback's local variables at its return
CallbackLocals(market, index) ==
  [ displayRiskScore |-> calculateRiskScore(market, index),
    interventionType |-> interventionTypeOf(calculateRiskScore(market, index)),
    nameHash |-> nameHash(market, index),
    variationFactor |-> variationFactor(market, index),
    marketShareRisk |-> marketShareRisk(market),
    leakageRisk |-> leakageRisk(market) ]

\* -------------------------------------- high-risk-providers: the scorer
\* Risk points of this route are in thousandths of a point (Milli); its
\* revenueAtRisk, revenue * riskScore / 100, is in 1/100000 of a currency unit.
Milli == 1000

\* x || d for a number: d when x is 0 or NaN
OrElse(x, d) == IF x = 0 \/ IsNaN(x) THEN d ELSE x

\* The flat provider object built from a marketAnalysis row
NormalizeProvider(row) ==
  [ providerNPI |-> IF row.providerNPI = <<>> THEN <<"N", "/", "A">> ELSE row.providerNPI,
    zipCode |-> IF row.zipCode = <<>> THEN <<"N", "/", "A">> ELSE row.zipCode,
    marketShare |-> OrElse(row.marketSharePercentage, 0),
    marketSharePercentage |-> OrElse(row.marketSharePercentage, 0),
    revenue |-> OrElse(row.providerRevenue, 0),
    providerRevenue |-> OrElse(row.providerRevenue, 0),
    marketPosition |-> OrElse(row.marketPosition, 1),
    totalMarketRevenue |-> OrElse(row.totalMarketRevenue, 0),
    providerCount |-> OrElse(row.providerCount, 1),
    providerServices |-> OrElse(row.providerServices, 0) ]

\* The sum calculateMLRiskScore accumulates in riskScore, in Milli
accumulatedRisk(provider, marketPosition, totalProviders) ==
  LET marketShare == OrElse(provider.marketSharePercentage, 0)
      marketShareRisk0 == (100 - marketShare) * 4 * (Milli \div 10)
      positionRisk == IF marketPosition > 2 /\ totalProviders > 3 THEN 25 * Milli
                      ELSE IF marketPosition > 1 THEN 15 * Milli
                      ELSE 0
      \* competitionScore * 20 = 20 / (marketShare + 1)
      competitionRisk == (20 * Milli) \div (marketShare + 1)
      \* (1 - revenuePerProvider / (provider.totalMarketRevenue || 1)) * 15
      efficiencyRisk == 15 * Milli
                        - (15 * Milli * provider.revenue)
                            \div (totalProviders * OrElse(provider.totalMarketRevenue, 1))
      \* Math.min(servicesPerProvider / 100, 10)
      servicesRisk == MathMin((OrElse(provider.providerServices, 0) * (Milli \div 100))
                                \div totalProviders, 10 * Milli)
      zipRisk == IF startsWith(provider.zipCode, <<"0", "0">>)
                    \/ startsWith(provider.zipCode, <<"9", "9">>)
                 THEN 10 * Milli ELSE 0
  IN marketShareRisk0 + positionRisk + competitionRisk + efficiencyRisk
     + servicesRisk + zipRisk

calculateMLRiskScore_NoUpperClamp(provider, marketPosition, totalProviders) ==
  MathMax(accumulatedRisk(provider, marketPosition, totalProviders), 0)

\* calculateMLRiskScore(provider, marketPosition, totalProviders), in Milli:
\* Math.min(Math.max(riskScore, 0), 100)
calculateMLRiskScore(provider, marketPosition, totalProviders) ==
  MathMin(MathMax(accumulatedRisk(provider, marketPosition, totalProviders), 0), 100 * Milli)

riskLevelOf(riskScore, unit) ==
  IF Gt(riskScore, 70 * unit) THEN "high"
  ELSE IF Gt(riskScore, 50 * unit) THEN "medium"
  ELSE "low"

\* The object the scoring map returns for one provider (without mlModelUsed,
\* which records whether the model file exists)
ScoreHighRiskProvider(provider) ==
  LET riskScore == calculateMLRiskScore(provider, provider.marketPosition,
                                        provider.providerCount)
  IN [ providerNPI |-> provider.providerNPI,
       zipCode |-> provider.zipCode,
       marketShare |-> provider.marketShare,
       revenue |-> provider.revenue,
       providerRevenue |-> provider.providerRevenue,
       providerCount |-> provider.providerCount,
       riskScore |-> MathRound(riskScore, Milli),
       riskLevel |-> riskLevelOf(riskScore, Milli),
       revenueAtRisk |-> provider.revenue * riskScore ]

\* --------------------------------------------------- ml-predict: one provider
\* provider.riskScore and provider.revenueAtRisk are 0 when the caller sent none
\* (an absent field and 0 are read alike).  revenueAtRisk is in 1/100000 of a
\* currency unit; riskProbability, riskScore / 100, is in hundredths.
Predict(provider) ==
  LET riskScore == OrElse(provider.riskScore, 75)
      revenueAtRisk == OrElse(provider.revenueAtRisk, provider.revenue * riskScore * Milli)
  IN [ providerNPI |-> IF provider.providerNPI = <<>> THEN <<"N", "/", "A">>
                       ELSE provider.providerNPI,
       riskScore |-> riskScore,
       riskProbability |-> riskScore,
       revenueAtRisk |-> revenueAtRisk,
       riskLevel |-> riskLevelOf(riskScore, 1) ]

\* ----------------------------------------------------------- recovery-plan
\* The plan the route computes from its cohort: totalProviders providers of
\* averageProviderRevenue each (the route sets 15 and 37000).  Amounts are in
\* whole currency units.
phase1Providers(totalProviders) == MathRound(totalProviders * 4, 10)

phase2Providers_SixtyFive(totalProviders) == MathRound(totalProviders * 65, 100)

phase2Providers(totalProviders) == MathRound(totalProviders * 35, 100)

phase3Providers_Rounded(totalProviders) == MathRound(totalProviders * 25, 100)

phase3Providers(totalProviders) ==
  totalProviders - phase1Providers(totalProviders) - phase2Providers(totalProviders)

totalRecoveryPotentialOf_TwoPhases(totalProviderRevenue) ==
  MathRound(totalProviderRevenue * 7, 10)

\* totalProviderRevenue * (phase1Rate + phase2Rate + phase3Rate), the rates
\* being 0.40, 0.30 and 0.30
totalRecoveryPotentialOf(totalProviderRevenue) == totalProviderRevenue

RecoveryPlan(totalProviders, averageProviderRevenue) ==
  LET totalProviderRevenue == totalProviders * averageProviderRevenue
      totalRecoveryPotential == totalRecoveryPotentialOf(totalProviderRevenue)
      expectedROI == 180
      paybackPeriod == 8
  IN [ summary |->
         [ totalProviders |-> totalProviders,
           highRiskProviders |-> totalProviders,
           totalProviderRevenue |-> totalProviderRevenue,
           totalRecoveryPotential |-> MathRound(totalRecoveryPotential, 1),
           expectedROI |-> expectedROI,
           paybackPeriod |-> paybackPeriod,
           \* Math.round(totalRecoveryPotential * 0.12)
           implementationCost |-> MathRound(totalRecoveryPotential * 12, 100) ],
       implementationPhases |->
         << [ providers |-> phase1Providers(totalProviders),
              expectedRecovery |-> MathRound(totalProviderRevenue * 4, 10),
              \* Math.round(phase1Recovery * 0.085)
              cost |-> MathRound(totalProviderRevenue * 34, 1000) ],
            [ providers |-> phase2Providers(totalProviders),
              expectedRecovery |-> MathRound(totalProviderRevenue * 3, 10),
              \* Math.round(phase2Recovery * 0.12)
              cost |-> MathRound(totalProviderRevenue * 36, 1000) ],
            [ providers |-> phase3Providers(totalProviders),
              expectedRecovery |-> MathRound(totalProviderRevenue * 3, 10),
              \* Math.round(phase3Recovery * 0.11)
              cost |-> MathRound(totalProviderRevenue * 33, 1000) ] >> ]

\* -------------------------------------- dashboard-summary: the GET handler
LowerLetters ==
  { "a", "b", "c", "d", "e", "f", "g", "h", "i", "j", "k", "l", "m",
    "n", "o", "p", "q", "r", "s", "t", "u", "v", "w", "x", "y", "z" }

LowerOf(c) ==
  CASE c = "A" -> "a"
    [] c = "B" -> "b"
    [] c = "C" -> "c"
    [] c = "D" -> "d"
    [] c = "E" -> "e"
    [] c = "F" -> "f"
    [] c = "G" -> "g"
    [] c = "H" -> "h"
    [] c = "I" -> "i"
    [] c = "J" -> "j"
    [] c = "K" -> "k"
    [] c = "L" -> "l"
    [] c = "M" -> "m"
    [] c = "N" -> "n"
    [] c = "O" -> "o"
    [] c = "P" -> "p"
    [] c = "Q" -> "q"
    [] c = "R" -> "r"
    [] c = "S" -> "s"
    [] c = "T" -> "t"
    [] c = "U" -> "u"
    [] c = "V" -> "v"
    [] c = "W" -> "w"
    [] c = "X" -> "x"
    [] c = "Y" -> "y"
    [] c = "Z" -> "z"
    [] OTHER -> c

\* s.toLowerCase()
toLowerCase(s) == [ i \in 1..Len(s) |-> LowerOf(s[i]) ]

\* s.includes(sub)
includes(s, sub) ==
  \E i \in 1..(Len(s) - Len(sub) + 1) : SubSeq(s, i, i + Len(sub) - 1) = sub

\* s.match(/[a-z]+ [a-z]+/)
matchesTwoWords(s) ==
  \E i \in 2..(Len(s) - 1) :
    s[i] = " " /\ s[i - 1] \in LowerLetters /\ s[i + 1] \in LowerLetters

\* the substrings that mark a name as an organization
orgPatterns ==
  { <<"w", "a", "l", "g", "r", "e", "e", "n", "s">>,
    <<"p", "h", "a", "r", "m", "a", "c", "y">>,
    <<"c", "l", "i", "n", "i", "c">>,
    <<"h", "o", "s", "p", "i", "t", "a", "l">>,
    <<"m", "e", "d", "i", "c", "a", "l", " ", "c", "e", "n", "t", "e", "r">>,
    <<"l", "l", "c">>,
    <<"i", "n", "c">>,
    <<"c", "o", "m", "p", "a", "n", "y">>,
    <<"c", "o", "r", "p">>,
    <<"c", "e", "n", "t", "r", "a", "l", "i", "z", "e", "d">>,
    <<"c", "o">> }

\* npiNameMap before any load: {}
EmptyNameMap == [ npi \in {} |-> <<>> ]

\* npiNameMap[npi], "" when the map has no such key
NameOf(nameMap, npi) == IF npi \in DOMAIN nameMap THEN nameMap[npi] ELSE <<>>

\* The predicate of topProviders' filter
keepsProvider(nameMap, m) ==
  LET known == NameOf(nameMap, m.providerNPI)
      name == toLowerCase(IF known # <<>> THEN known ELSE m.providerName)
  IN /\ ~(m.entityType # 0 /\ m.entityType # 1)
     /\ \A p \in orgPatterns : ~includes(name, p)
     /\ matchesTwoWords(name)
     /\ Gt(m.providerRevenue, 10000)

\* array.filter(keep), keep given as the set of elements kept
RECURSIVE FilterSeq(_, _)
FilterSeq(seq, kept) ==
  IF seq = <<>> THEN <<>>
  ELSE IF Head(seq) \in kept THEN <<Head(seq)>> \o FilterSeq(Tail(seq), kept)
  ELSE FilterSeq(Tail(seq), kept)

\* x placed into seq, sorted by providerRevenue descending, after the elements
\* that compare equal to it: the order a stable sort gives
RECURSIVE InsertByRevenue(_, _)
InsertByRevenue(x, seq) ==
  IF seq = <<>> THEN <<x>>
  ELSE IF Head(seq).providerRevenue >= x.providerRevenue
       THEN <<Head(seq)>> \o InsertByRevenue(x, Tail(seq))
       ELSE <<x>> \o seq

\* array.sort((a, b) => b.providerRevenue - a.providerRevenue)
RECURSIVE sortByRevenue(_)
sortByRevenue(seq) ==
  IF seq = <<>> THEN <<>>
  ELSE InsertByRevenue(seq[Len(seq)], sortByRevenue(SubSeq(seq, 1, Len(seq) - 1)))

\* array.slice(0, n)
sliceFirst(seq, n) == SubSeq(seq, 1, IF Len(seq) < n THEN Len(seq) ELSE n)

\* Math.random() draws are in thousandths

\* Trend values are kept in hundredths
TrendScale == 100

\* value / (1 + (draw - 0.5) * volatility), volatility in thousandths; the
\* quotient is cut to the scale of value
trendStep(value, draw, volatility) ==
  IF IsNaN(value) THEN NaN
  ELSE LET divisor == 1000000 + (draw - 500) * volatility
       IN (value \div divisor) * 1000000 + ((value % divisor) * 1000) \div (divisor \div 1000)

\* generateTrend(current, volatility) with the five draws it makes, in order
generateTrend(current, volatility, draws) ==
  LET v0 == IF IsNaN(current) THEN NaN ELSE current * TrendScale
      v1 == trendStep(v0, draws[1], volatility)
      v2 == trendStep(v1, draws[2], volatility)
      v3 == trendStep(v2, draws[3], volatility)
      v4 == trendStep(v3, draws[4], volatility)
      v5 == trendStep(v4, draws[5], volatility)
  IN << MathRound(v5, TrendScale), MathRound(v4, TrendScale), MathRound(v3, TrendScale),
        MathRound(v2, TrendScale), current >>

\* The map callback with the fifteen draws of its three trends
ScoredProviderWithTrends(m, index, draws) ==
  LET p == ScoredProvider(m, index)
  IN [ id |-> p.id, specialty |-> p.specialty, leakageRate |-> p.leakageRate,
       trend |-> p.trend, revenue |-> p.revenue, providerNPI |-> p.providerNPI,
       riskScore |-> p.riskScore, marketPosition |-> p.marketPosition,
       revenueAtRisk |-> p.revenueAtRisk, interventionType |-> p.interventionType,
       urgency |-> p.urgency, competitorThreat |-> p.competitorThreat,
       marketShare |-> p.marketShare,
       revenueTrend |-> generateTrend(OrElse(m.providerRevenue, 0), 80, SubSeq(draws, 1, 5)),
       marketShareTrend |-> generateTrend(OrElse(m.marketSharePercentage, 0), 70,
                                          SubSeq(draws, 6, 10)),
       riskScoreTrend |-> generateTrend(p.riskScore, 100, SubSeq(draws, 11, 15)) ]

\* The rows the GET handler scores: marketAnalysis filtered, sorted by revenue
\* and cut to fifteen
selectProviders(marketAnalysis, nameMap) ==
  LET kept == { m \in { marketAnalysis[i] : i \in 1..Len(marketAnalysis) } :
                  keepsProvider(nameMap, m) }
  IN sliceFirst(sortByRevenue(FilterSeq(marketAnalysis, kept)), MaxIndex + 1)

\* topProviders of the GET handler for the rows marketAnalysis, the name map as
\* loaded, and the stream of Math.random draws
topProviders(marketAnalysis, nameMap, draws) ==
  LET top == selectProviders(marketAnalysis, nameMap)
  IN [ i \in 1..Len(top) |->
         ScoredProviderWithTrends(top[i], i - 1, SubSeq(draws, 15 * (i - 1) + 1, 15 * i)) ]

\* revenueSaved as the response reports it, in tenths of a million, for
\* revenueAtRisk in thousands:
\* Math.round(activeInterventions * (revenueAtRisk / totalMarkets) * 0.3 / 1000000 * 10) / 10
revenueSavedOf(activeInterventions, revenueAtRisk, totalMarkets) ==
  IF totalMarkets = 0
  THEN IF revenueAtRisk = 0 \/ activeInterventions = 0 THEN NaN ELSE Infinity
  ELSE MathRound(activeInterventions * revenueAtRisk * 3, totalMarkets * 1000)

\* The headline metrics of the GET handler, from insights.summary (its amounts
\* in thousands) and the rows marketAnalysis
keyMetrics(dataSummary, marketAnalysis) ==
  LET totalMarketValue == OrElse(dataSummary.totalRevenueAnalyzed, 0)
      \* totalMarketValue * (4.2 / 100)
      networkRevenue == (totalMarketValue * 42) \div 1000
      totalMarkets == OrElse(dataSummary.totalMarketsAnalyzed, Len(marketAnalysis))
      highRiskMarkets == OrElse(dataSummary.highConcentrationMarkets, 0)
      averageMarketShare == OrElse(dataSummary.averageMarketShare, 0)
      estimatedLeakageRate == MathMax(0, 100 - averageMarketShare)
      revenueAtRisk == (networkRevenue * estimatedLeakageRate) \div 100
      \* Math.floor(highRiskMarkets * 0.1)
      activeInterventions == highRiskMarkets \div 10
  IN [ revenueAtRisk |-> MathRound(revenueAtRisk, 100),
       leakageRate |-> estimatedLeakageRate,
       activeInterventions |-> activeInterventions,
       revenueSaved |-> revenueSavedOf(activeInterventions, revenueAtRisk, totalMarkets),
       totalMarkets |-> totalMarkets,
       highRiskMarkets |-> highRiskMarkets ]

\* ------------------------------------------------------------------- state
VARIABLES
  pc,          \* "start": the input is drawn; "scored"; "predicted"
  route,       \* the route whose per-provider scoring runs
  market,      \* dashboard-summary: the marketAnalysis row
  index,       \* dashboard-summary: its position after filter, sort and slice
  scored,      \* dashboard-summary: the object returned for it
  local,       \* dashboard-summary: the callback's locals at its return
  row,         \* high-risk-providers: the marketAnalysis row; ml-predict: the provider sent
  hrScored,    \* high-risk-providers: the provider as the route emits it
  prediction,  \* ml-predict: the prediction returned for the provider
  cohort,      \* recovery-plan: totalProviders and averageProviderRevenue
  recoveryPlan,     \* recovery-plan: the plan returned
  npiNameMap,       \* dashboard-summary: the module-level name map
  insights,         \* dashboard-summary: the marketAnalysis rows of the stored data
  insightsSummary,  \* dashboard-summary: the summary of the stored data
  nameMapFile,      \* dashboard-summary: the name map a load reads now
  summary,          \* dashboard-summary: the last response
  bucket,           \* dashboard-summary: whether S3_BUCKET_NAME is set
  requests,         \* dashboard-summary: each GET in flight, its position and what it read
  nameMapReads,     \* dashboard-summary: the reads of npi_name_map.json that gave a map
  providers,        \* analyze: the providers of the request body
  realInsights,     \* analyze: the insights loaded from the outputs or public folder
  mlResults,        \* analyze: what the ML call left in mlResults
  enhancedData,     \* analyze: the response
  fileCall,         \* FileHandler: the method called, its path, the S3 request's outcome
  fileResult,       \* FileHandler: what the method returned
  child,            \* subprocess routes: the child process and the events it has yet to emit
  output,           \* subprocess routes: stdout accumulated
  errorOutput,      \* subprocess routes: stderr accumulated
  responses,        \* subprocess routes: the responses the request has received
  factorInput,      \* generateRiskFactors: its argument, provider
  riskFactors,      \* generateRiskFactors: the array being built
  idx,              \* generateRiskFactors: the index last drawn in the do-while loop
  random            \* generateRiskFactors: the value Math.random() returned last, in quarters

scoring == << pc, route, market, index, scored, local, row, hrScored, prediction >>

serving == << npiNameMap, insights, insightsSummary, nameMapFile, summary >>

loading == << bucket, requests, nameMapReads >>

analysing == << providers, realInsights, mlResults, enhancedData >>

filing == << fileCall, fileResult >>

spawning == << child, output, errorOutput, responses >>

generating == << factorInput, riskFactors, idx, random >>

handlers == << loading, analysing, filing, spawning, generating >>

vars == << scoring, cohort, recoveryPlan, serving, handlers >>

Idle == [ idle |-> TRUE ]

NotLoading == bucket = Idle /\ requests = Idle /\ nameMapReads = Idle

NotAnalysing ==
  providers = Idle /\ realInsights = Idle /\ mlResults = Idle /\ enhancedData = Idle

NotFiling == fileCall = Idle /\ fileResult = Idle

NotSpawning == child = Idle /\ output = Idle /\ errorOutput = Idle /\ responses = Idle

NotGenerating ==
  factorInput = Idle /\ riskFactors = Idle /\ idx = Idle /\ random = Idle

NotHandling == NotLoading /\ NotAnalysing /\ NotFiling /\ NotSpawning /\ NotGenerating

\* ------------------------------------------------------------ input grids
\* The revenue that adds one RawScale-th of a point to revenueRisk
RevenueUnit == 1000000 \div (5 * RawScale)

Revenues == { r * RevenueStride * RevenueUnit : r \in 0..MaxRevenueSteps }

MarketShares == { m \in 0..100 : m % MarketShareStep = 0 }

Specialties == { "Emergency Medicine", "Family Medicine", "Cardiology", "Dermatology", "" }

ProviderNPIs ==
  { <<>>, <<"7">>, <<"1", "2", "3", "4", "5", "6", "7", "8", "9", "0">>,
    <<"N", "/", "A">>, <<"-", "3">>, <<"9", "A">> }

Markets ==
  [ providerNPI : ProviderNPIs, specialty : Specialties,
    marketSharePercentage : MarketShares, providerRevenue : Revenues ]

\* high-risk-providers rows.  Only rows on which the quotients of
\* calculateMLRiskScore are exact in Milli are kept.
ZipCodes == { <<>>, <<"1", "2", "3", "4", "5">>, <<"0", "0", "6", "0", "1">>,
              <<"9", "9", "5", "0", "1">> }

HighRiskFields ==
  [ providerNPI : { <<>>, <<"1", "2", "3", "4", "5", "6", "7", "8", "9", "0">> },
    zipCode : ZipCodes,
    marketSharePercentage : { 0, 3, 19, 99 },
    providerRevenue : { 0, 1000, 20000 },
    marketPosition : 0..MaxMarketPosition,
    totalMarketRevenue : { 0, 20000, 40000 },
    providerCount : { 0, 1, 2, 4, 5 },
    providerServices : { 0, 500, 4000 } ]

ExactRow(r) ==
  LET p == NormalizeProvider(r)
  IN /\ (20 * Milli) % (p.marketShare + 1) = 0
     /\ (15 * Milli * p.revenue) % (p.providerCount * OrElse(p.totalMarketRevenue, 1)) = 0
     /\ (p.providerServices * (Milli \div 100)) % p.providerCount = 0

HighRiskRows == { r \in HighRiskFields : ExactRow(r) }

\* ml-predict called directly (as the endpoint test calls it): a provider with
\* no riskScore and no revenueAtRisk
PredictSamples ==
  [ providerNPI : { <<>>, <<"1", "2", "3", "4", "5", "6", "7", "8", "9", "0">> },
    revenue : { 0, 1000, 20000 }, riskScore : { 0 }, revenueAtRisk : { 0 } ]

\* --------------------------------------- per-provider scoring of the routes
NotServing ==
  /\ npiNameMap = Idle
  /\ insights = <<>>
  /\ insightsSummary = Idle
  /\ nameMapFile = Idle
  /\ summary = Idle

InitScore ==
  /\ pc = "start"
  /\ \/ /\ route = "dashboard-summary"
        /\ market \in Markets
        /\ index \in 0..MaxIndex
        /\ row = Idle
     \/ /\ route = "high-risk-providers"
        /\ row \in HighRiskRows
        /\ market = Idle
        /\ index = 0
     \/ /\ route = "ml-predict"
        /\ row \in PredictSamples
        /\ market = Idle
        /\ index = 0
  /\ scored = Idle
  /\ local = Idle
  /\ hrScored = Idle
  /\ prediction = Idle
  /\ cohort = Idle
  /\ recoveryPlan = Idle
  /\ NotServing
  /\ NotHandling

\* dashboard-summary GET: the map callback applied to (market, index)
DashboardScore ==
  /\ pc = "start"
  /\ route = "dashboard-summary"
  /\ scored' = ScoredProvider(market, index)
  /\ local' = CallbackLocals(market, index)
  /\ pc' = "scored"
  /\ UNCHANGED << route, market, index, row, hrScored, prediction, cohort, recoveryPlan, serving >>
  /\ UNCHANGED handlers

\* high-risk-providers GET: the row is flattened and scored
HighRiskScore ==
  /\ pc = "start"
  /\ route = "high-risk-providers"
  /\ hrScored' = ScoreHighRiskProvider(NormalizeProvider(row))
  /\ pc' = "scored"
  /\ UNCHANGED << route, market, index, scored, local, row, prediction, cohort, recoveryPlan, serving >>
  /\ UNCHANGED handlers

\* high-risk-providers GET with useML=true: the scored provider is posted to
\* ml-predict and the prediction's score, level and revenue replace its own
HighRiskUseML ==
  /\ pc = "scored"
  /\ route = "high-risk-providers"
  /\ prediction' = Predict(hrScored)
  /\ hrScored' = IF Predict(hrScored).providerNPI = hrScored.providerNPI
                 THEN [ hrScored EXCEPT !.riskScore = Predict(hrScored).riskScore,
                                        !.riskLevel = Predict(hrScored).riskLevel,
                                        !.revenueAtRisk = Predict(hrScored).revenueAtRisk ]
                 ELSE hrScored
  /\ pc' = "predicted"
  /\ UNCHANGED << route, market, index, scored, local, row, cohort, recoveryPlan, serving >>
  /\ UNCHANGED handlers

\* ml-predict POST: one element of providerData
MlPredict ==
  /\ pc = "start"
  /\ route = "ml-predict"
  /\ prediction' = Predict(row)
  /\ pc' = "predicted"
  /\ UNCHANGED << route, market, index, scored, local, row, hrScored, cohort, recoveryPlan, serving >>
  /\ UNCHANGED handlers

NextScore == DashboardScore \/ HighRiskScore \/ HighRiskUseML \/ MlPredict

SpecScore == InitScore /\ [][NextScore]_vars

\* ------------------------- dashboard-summary on records as the data may hold
\* A numeric field that is missing (undefined) is NaN: in arithmetic, in a
\* comparison and under || it behaves as NaN does.
RecordFields ==
  [ entityType : { 1 },
    providerName : { <<"j", "u", "a", "n", " ", "t", "o", "r", "r", "e", "s">> },
    providerNPI : { <<>>, <<"1", "2", "3", "4", "5", "6", "7", "8", "9", "0">> },
    specialty : { "Cardiology", "" },
    marketSharePercentage : { NaN, 0 - 50, 0, 50, 100, 150 },
    providerRevenue : { NaN, 0, RevenueUnit, 50 * RevenueUnit, 200 * RevenueUnit } ]

InitRecords ==
  /\ pc = "read"
  /\ route = "dashboard-summary"
  /\ market \in RecordFields
  /\ index \in 0..MaxIndex
  /\ row = Idle
  /\ scored = Idle
  /\ local = Idle
  /\ hrScored = Idle
  /\ prediction = Idle
  /\ cohort = Idle
  /\ recoveryPlan = Idle
  /\ npiNameMap = EmptyNameMap
  /\ insights = <<>>
  /\ insightsSummary = Idle
  /\ nameMapFile = Idle
  /\ summary = Idle
  /\ NotHandling

\* dashboard-summary GET: the filter callback applied to the record
DashboardFilter ==
  /\ pc = "read"
  /\ route = "dashboard-summary"
  /\ pc' = IF keepsProvider(npiNameMap, market) THEN "start" ELSE "dropped"
  /\ UNCHANGED << route, market, index, scored, local, row, hrScored, prediction,
                  cohort, recoveryPlan, serving >>
  /\ UNCHANGED handlers

NextRecords == DashboardFilter \/ DashboardScore

SpecRecords == InitRecords /\ [][NextRecords]_vars

\* ------------------------------------------- the recovery plan of a cohort
AverageRevenues == { 0, 1, 12345, 37000 }

Cohorts == [ totalProviders : 0..MaxCohort, averageProviderRevenue : AverageRevenues ]

InitPlan ==
  /\ pc = "start"
  /\ route = "recovery-plan"
  /\ cohort \in Cohorts
  /\ recoveryPlan = Idle
  /\ market = Idle
  /\ index = 0
  /\ row = Idle
  /\ scored = Idle
  /\ local = Idle
  /\ hrScored = Idle
  /\ prediction = Idle
  /\ NotServing
  /\ NotHandling

\* recovery-plan POST
RecoveryPlanPOST ==
  /\ pc = "start"
  /\ route = "recovery-plan"
  /\ recoveryPlan' = RecoveryPlan(cohort.totalProviders, cohort.averageProviderRevenue)
  /\ pc' = "planned"
  /\ UNCHANGED << route, market, index, scored, local, row, hrScored, prediction, cohort, serving >>
  /\ UNCHANGED handlers

NextPlan == RecoveryPlanPOST

SpecPlan == InitPlan /\ [][NextPlan]_vars

\* ------------------------------------------------- the routes as served
\* The stored data: up to MaxRows rows out of four.
RowTorres ==
  [ entityType |-> 1, providerNPI |-> <<"1", "2", "3", "4", "5", "6", "7", "8", "9", "0">>, providerName |-> <<>>,
    specialty |-> "Internal Medicine", marketSharePercentage |-> 20,
    providerRevenue |-> 2000000 ]

RowHospital ==
  [ entityType |-> 2, providerNPI |-> <<"7">>, providerName |-> <<"C", "i", "t", "y", " ", "H", "o", "s", "p", "i", "t", "a", "l">>,
    specialty |-> "Emergency Medicine", marketSharePercentage |-> 60,
    providerRevenue |-> 4000000 ]

RowGarcia ==
  [ entityType |-> 0, providerNPI |-> <<"N", "/", "A">>, providerName |-> <<"M", "a", "r", "i", "a", " ", "G", "a", "r", "c", "i", "a">>,
    specialty |-> "", marketSharePercentage |-> 96, providerRevenue |-> 40000 ]

RowLee ==
  [ entityType |-> 0, providerNPI |-> <<>>, providerName |-> <<"a", "n", "n", " ", "l", "e", "e">>,
    specialty |-> "Cardiology", marketSharePercentage |-> 50, providerRevenue |-> 0 ]

CandidateRows == { RowTorres, RowHospital, RowGarcia, RowLee }

DataSets == UNION { [ 1..n -> CandidateRows ] : n \in 0..MaxRows }

\* npi_name_map.json as stored, and the map before any load
StoredNameMap == [ npi \in { <<"1", "2", "3", "4", "5", "6", "7", "8", "9", "0">> } |-> <<"J", "U", "A", "N", " ", "T", "O", "R", "R", "E", "S">> ]

\* insights.summary as stored, its amounts in thousands; 0 where the field
\* is missing
DataSummaries ==
  { [ totalRevenueAnalyzed |-> 0, totalMarketsAnalyzed |-> 0,
      highConcentrationMarkets |-> 0, averageMarketShare |-> 0 ],
    [ totalRevenueAnalyzed |-> 25000000, totalMarketsAnalyzed |-> 100,
      highConcentrationMarkets |-> 20, averageMarketShare |-> 60 ],
    [ totalRevenueAnalyzed |-> 25000000, totalMarketsAnalyzed |-> 0,
      highConcentrationMarkets |-> 20, averageMarketShare |-> 60 ],
    [ totalRevenueAnalyzed |-> 25000000, totalMarketsAnalyzed |-> 0,
      highConcentrationMarkets |-> 0, averageMarketShare |-> 0 ] }

\* The streams of n draws of Math.random in which the first MaxLowDraws draws
\* are 0 or 0.5 and the others 0.5
DrawStreams(n) ==
  LET free == 1..MathMin(n, MaxLowDraws)
  IN { [ i \in 1..n |-> IF i \in S THEN 0 ELSE 500 ] : S \in SUBSET free }

InitServe ==
  /\ pc = "serving"
  /\ route = "server"
  /\ market = Idle
  /\ index = 0
  /\ row = Idle
  /\ scored = Idle
  /\ local = Idle
  /\ hrScored = Idle
  /\ prediction = Idle
  /\ cohort = [ totalProviders |-> 15, averageProviderRevenue |-> 37000 ]
  /\ recoveryPlan = Idle
  /\ npiNameMap = EmptyNameMap
  /\ insights \in DataSets
  /\ insightsSummary \in DataSummaries
  /\ nameMapFile \in { StoredNameMap, EmptyNameMap }
  /\ summary = Idle
  /\ NotHandling

LoadedNameMaps_Reload == { nameMapFile }

\* loadNPINameMap(): the map already loaded, or what the load reads now (the
\* empty map when neither S3 nor the local file gives one)
LoadedNameMaps ==
  IF DOMAIN npiNameMap # {} THEN { npiNameMap } ELSE { nameMapFile }

\* dashboard-summary GET (of its response: the status, the headline metrics
\* and topProviders with the fields of ScoredProviderWithTrends)
DashboardSummaryGET ==
  /\ route = "server"
  /\ \E loaded \in LoadedNameMaps, available \in BOOLEAN :
     \E draws \in DrawStreams(15 * Len(selectProviders(insights, loaded))) :
       /\ npiNameMap' = loaded
       /\ summary' = IF available
                     THEN [ status |-> 200,
                            metrics |-> keyMetrics(insightsSummary, insights),
                            topProviders |-> topProviders(insights, loaded, draws) ]
                     ELSE [ status |-> 404, metrics |-> Idle, topProviders |-> <<>> ]
  /\ UNCHANGED << scoring, cohort, recoveryPlan, insights, insightsSummary, nameMapFile >>
  /\ UNCHANGED handlers

\* recovery-plan POST (of its response: recoveryPlan)
RecoveryPlanServed ==
  /\ route = "server"
  /\ recoveryPlan' = RecoveryPlan(cohort.totalProviders, cohort.averageProviderRevenue)
  /\ UNCHANGED << scoring, cohort, serving >>
  /\ UNCHANGED handlers

\* Between requests the stored name map is written, replaced or removed
NameMapFileChanges ==
  /\ route = "server"
  /\ nameMapFile' \in { StoredNameMap, EmptyNameMap } \ { nameMapFile }
  /\ UNCHANGED << scoring, cohort, recoveryPlan, npiNameMap, insights, insightsSummary,
                  summary >>
  /\ UNCHANGED handlers

Next == DashboardSummaryGET \/ RecoveryPlanServed \/ NameMapFileChanges

Spec == InitServe /\ [][Next]_vars

\* ------------------------------------------------------------------ claims
Dashboard == route = "dashboard-summary" /\ pc = "scored"

HighRisk == route = "high-risk-providers" /\ pc \in { "scored", "predicted" }

Predicted == pc = "predicted"

\* C1: for every provider record with providerRevenue >= 0 and
\* marketSharePercentage in [0,100], whatever its specialty, index and
\* providerNPI, the riskScore emitted is a number with 55 <= riskScore <= 95.
RiskScoreBounded ==
  Dashboard => (~IsNaN(scored.riskScore) /\ 55 <= scored.riskScore /\ scored.riskScore <= 95)

RiskScoreMonotone ==
  Dashboard =>
    /\ \A r2 \in Revenues :
         r2 >= market.providerRevenue =>
           ~Gt(scored.riskScore,
               calculateRiskScore([market EXCEPT !.providerRevenue = r2], index))
    /\ \A m2 \in MarketShares :
         m2 <= market.marketSharePercentage =>
           ~Gt(scored.riskScore,
               calculateRiskScore([market EXCEPT !.marketSharePercentage = m2], index))

\* C5 witness: a scored provider for which more revenue and less market share
\* each give a strictly higher score
RiskScoreRises ==
  /\ Dashboard
  /\ \E r2 \in Revenues :
       /\ r2 > market.providerRevenue
       /\ Gt(calculateRiskScore([market EXCEPT !.providerRevenue = r2], index),
             scored.riskScore)
  /\ \E m2 \in MarketShares :
       /\ m2 < market.marketSharePercentage
       /\ Gt(calculateRiskScore([market EXCEPT !.marketSharePercentage = m2], index),
             scored.riskScore)

InterventionByThreshold ==
  Dashboard =>
    /\ Gt(scored.riskScore, 90) => scored.interventionType = "Contract Renegotiation"
    /\ (Gt(scored.riskScore, 80) /\ ~Gt(scored.riskScore, 90))
         => scored.interventionType = "Competitive Response"
    /\ (Gt(scored.riskScore, 70) /\ ~Gt(scored.riskScore, 80))
         => scored.interventionType = "Service Expansion"
    /\ (~IsNaN(scored.riskScore) /\ scored.riskScore <= 70)
         => scored.interventionType = "Relationship Building"

\* C8 as stated: riskScore 90 gets "Service Expansion", 91 "Competitive Response",
\* be it as the intervention the route emits or as the one its thresholds select.
InterventionBoundaryAsStated ==
  Dashboard =>
    /\ scored.riskScore = 90
         => "Service Expansion" \in { scored.interventionType, local.interventionType }
    /\ scored.riskScore = 91
         => "Competitive Response" \in { scored.interventionType, local.interventionType }

\* C8 amended: the threshold selection the route computes (its local
\* interventionType) is "Competitive Response" at 90 and "Contract
\* Renegotiation" at 91.
InterventionBoundary ==
  Dashboard =>
    /\ local.displayRiskScore = 90 => local.interventionType = "Competitive Response"
    /\ local.displayRiskScore = 91 => local.interventionType = "Contract Renegotiation"

\* C8 witness: a provider scored exactly 90
InterventionAtBoundary ==
  Dashboard /\ local.displayRiskScore = 90 /\ local.interventionType = "Competitive Response"

\* C9 as stated: revenueAtRisk = providerRevenue * riskScore / 100 with the
\* emitted riskScore.
RevenueAtRiskByScore ==
  /\ Dashboard =>
       (~IsNaN(scored.riskScore)
        /\ scored.revenueAtRisk = market.providerRevenue * scored.riskScore)
  /\ (route = "high-risk-providers" /\ pc = "scored") =>
       hrScored.revenueAtRisk = hrScored.revenue * hrScored.riskScore * Milli

\* C9 amended: dashboard-summary emits revenueAtRisk = 15% of providerRevenue;
\* high-risk-providers emits revenue * s / 100 for the unrounded score s, of
\* which the emitted riskScore is the rounding.
RevenueAtRiskAsComputed ==
  /\ Dashboard => scored.revenueAtRisk = market.providerRevenue * 15
  /\ (route = "high-risk-providers" /\ pc = "scored") =>
       IF hrScored.revenue = 0 THEN hrScored.revenueAtRisk = 0
       ELSE /\ hrScored.revenueAtRisk % hrScored.revenue = 0
            /\ hrScored.riskScore = MathRound(hrScored.revenueAtRisk \div hrScored.revenue, Milli)

\* C9 witness: a dashboard provider with revenue, scored above 15
RevenueAtRiskFifteenPercent ==
  /\ Dashboard
  /\ market.providerRevenue > 0
  /\ Gt(scored.riskScore, 15)
  /\ scored.revenueAtRisk = market.providerRevenue * 15
Planned == route = "recovery-plan" /\ pc = "planned"

\* C4: the three phase provider counts add up to totalProviders, phase 1 being
\* round(0.40 * totalProviders) and phase 2 round(0.35 * totalProviders).
PhaseCountsPartition ==
  Planned =>
    LET phases == recoveryPlan.implementationPhases
        n == recoveryPlan.summary.totalProviders
    IN /\ phases[1].providers + phases[2].providers + phases[3].providers = n
       /\ 10 * phases[1].providers - 5 <= 4 * n /\ 4 * n < 10 * phases[1].providers + 5
       /\ 100 * phases[2].providers - 50 <= 35 * n /\ 35 * n < 100 * phases[2].providers + 50

\* C4 witness: a cohort in which rounding 25% for the third phase as well would
\* lose a provider (10 providers: 4, 4 and the remaining 2)
PhaseCountsRemainder ==
  /\ Planned
  /\ recoveryPlan.summary.totalProviders = 10
  /\ recoveryPlan.implementationPhases[1].providers = 4
  /\ recoveryPlan.implementationPhases[2].providers = 4
  /\ recoveryPlan.implementationPhases[3].providers = 2

Deterministic ==
  [][ /\ (/\ summary # Idle
          /\ summary.status = 200
          /\ summary'.status = 200
          /\ npiNameMap' = npiNameMap)
           => summary'.topProviders = summary.topProviders
      /\ recoveryPlan # Idle => recoveryPlan' = recoveryPlan ]_vars
PlanServed == route = "server" /\ recoveryPlan # Idle

\* C11: paybackPeriod is ceil(implementationCost / (totalRecoveryPotential / 12))
\* of the plan's own figures, and is at least 1.
PaybackFromFigures ==
  PlanServed =>
    LET s == recoveryPlan.summary
    IN /\ s.paybackPeriod >= 1
       /\ s.totalRecoveryPotential > 0 =>
            s.paybackPeriod
              = MathMax(1, (12 * s.implementationCost + s.totalRecoveryPotential - 1)
                             \div s.totalRecoveryPotential)

\* C12: expectedROI is (totalRecoveryPotential - implementationCost) /
\* implementationCost of the plan's own figures, as a ratio or, to the nearest
\* point, as a percentage.
ROIFromFigures ==
  PlanServed =>
    LET s == recoveryPlan.summary
        gain == s.totalRecoveryPotential - s.implementationCost
    IN s.implementationCost > 0 =>
         \/ s.expectedROI * s.implementationCost = gain
         \/ /\ 100 * gain - s.implementationCost <= s.expectedROI * s.implementationCost
            /\ s.expectedROI * s.implementationCost <= 100 * gain + s.implementationCost

\* C13: the summary's implementationCost is the sum of the three phase costs,
\* each phase cost being 8.5%, 12% and 11% of that phase's recovery.
CostIsSumOfPhases ==
  PlanServed =>
    LET phases == recoveryPlan.implementationPhases
    IN /\ recoveryPlan.summary.implementationCost
            = phases[1].cost + phases[2].cost + phases[3].cost
       /\ phases[1].cost = MathRound(phases[1].expectedRecovery * 85, 1000)
       /\ phases[2].cost = MathRound(phases[2].expectedRecovery * 12, 100)
       /\ phases[3].cost = MathRound(phases[3].expectedRecovery * 11, 100)

\* The reported totalRecoveryPotential is the sum of the three reported phase
\* recoveries, which are 40%, 30% and 30% of totalProviderRevenue
RecoverySumsUp ==
  LET phases == recoveryPlan.implementationPhases
      s == recoveryPlan.summary
  IN /\ s.totalRecoveryPotential
          = phases[1].expectedRecovery + phases[2].expectedRecovery
            + phases[3].expectedRecovery
     /\ phases[1].expectedRecovery = MathRound(s.totalProviderRevenue * 4, 10)
     /\ phases[2].expectedRecovery = MathRound(s.totalProviderRevenue * 3, 10)
     /\ phases[3].expectedRecovery = MathRound(s.totalProviderRevenue * 3, 10)

IndexNeverInfluences ==
  Dashboard =>
    \A i2 \in 0..MaxIndex :
      LET other == ScoredProvider(market, i2)
      IN /\ other.riskScore = scored.riskScore
         /\ other.urgency = scored.urgency
         /\ other.revenueAtRisk = scored.revenueAtRisk

\* C15 amended: the same record at any other batch index gets the same
\* revenueAtRisk, and the same riskScore and urgency wherever the index gives
\* the same variationFactor.
IndexInfluencesByVariation ==
  Dashboard =>
    \A i2 \in 0..MaxIndex :
      LET other == ScoredProvider(market, i2)
      IN /\ other.revenueAtRisk = scored.revenueAtRisk
         /\ variationFactor(market, i2) = variationFactor(market, index) =>
              /\ other.riskScore = scored.riskScore
              /\ other.urgency = scored.urgency

\* C15 witness: a record scored at index 10, where its variationFactor is what
\* it is at index 0, below the top of the display range
SameVariationAtTwoIndices ==
  /\ Dashboard
  /\ index = 10
  /\ ~IsNaN(scored.riskScore)
  /\ scored.riskScore < 90
  /\ variationFactor(market, 0) = variationFactor(market, 10)
  /\ ScoredProvider(market, 0).riskScore = scored.riskScore

\* The record with every missing numeric field read as 0
ZeroFilled(m) ==
  [ m EXCEPT !.marketSharePercentage = OrElse(m.marketSharePercentage, 0),
             !.providerRevenue = OrElse(m.providerRevenue, 0) ]

\* C16: whatever marketSharePercentage a record holds, marketShareRisk is in
\* 0..40 and leakageRisk in 0..20.
MarketShareClamped ==
  (Dashboard /\ ~IsNaN(market.marketSharePercentage)) =>
    /\ 0 <= local.marketShareRisk /\ local.marketShareRisk <= 40 * RawScale
    /\ 0 <= local.leakageRisk /\ local.leakageRisk <= 20 * RawScale

\* C17: a record with missing numeric fields is scored as if they were 0: it
\* is dropped only if it would be with zeros, and its riskScore is the number
\* the zero-filled record gets.
MissingFieldsScoredAsZero ==
  /\ pc = "dropped" => ~keepsProvider(npiNameMap, ZeroFilled(market))
  /\ Dashboard =>
       /\ ~IsNaN(scored.riskScore)
       /\ scored.riskScore = calculateRiskScore(ZeroFilled(market), index)

Served == route = "server" /\ summary # Idle /\ summary.status = 200

\* C18: no output metric is NaN or Infinity: a zero denominator is replaced
\* by 1 or the metric is reported as 0.
MetricsAreNumbers ==
  Served =>
    \A f \in DOMAIN summary.metrics : summary.metrics[f] \notin { NaN, Infinity }

\* The providerNPI of each provider of a list, in order
NPIsOf(list) == [ i \in 1..Len(list) |-> list[i].providerNPI ]

CompetitorFromCatalog ==
  Dashboard =>
    /\ \E i \in 1..Len(competitors) : scored.competitorThreat = competitors[i]
    /\ market.providerNPI # <<>> =>
         \A i2 \in 0..MaxIndex :
           ArrayAt(competitors, competitorIndex(market, i2)) = scored.competitorThreat

\* C21: the variation term added to the raw score is an integer in 0..9, for
\* every providerNPI and every batch index.
VariationInRange ==
  Dashboard => (~IsNaN(local.variationFactor) /\ local.variationFactor \in 0..9)

\* C22: ml-predict returns, for a provider posted to it by high-risk-providers,
\* exactly the riskScore and revenueAtRisk that provider was posted with, and
\* riskProbability is that riskScore / 100 (kept in hundredths).
PredictionEchoesCaller ==
  (route = "high-risk-providers" /\ pc = "predicted") =>
    LET supplied == ScoreHighRiskProvider(NormalizeProvider(row))
    IN /\ prediction.riskScore = supplied.riskScore
       /\ prediction.revenueAtRisk = supplied.revenueAtRisk
       /\ prediction.riskProbability = supplied.riskScore

\* ------------------------- dashboard-summary GET: its loads, request by request
\* Several GETs are in flight at once.  A handler runs until it waits for S3
\* (s3.send) and resumes when the S3 response arrives; reads of local files
\* are synchronous.  npi_name_map.json, where a store has it, is nameMapFile
\* (EmptyNameMap: no store has it); an S3 request may fail.
RequestIds == 1..MaxRequests

NewRequest == [ pc |-> "start", readFrom |-> "none", response |-> Idle ]

InitLoad ==
  /\ pc = "serving"
  /\ route = "dashboard-summary"
  /\ market = Idle
  /\ index = 0
  /\ row = Idle
  /\ scored = Idle
  /\ local = Idle
  /\ hrScored = Idle
  /\ prediction = Idle
  /\ cohort = Idle
  /\ recoveryPlan = Idle
  /\ npiNameMap = EmptyNameMap
  /\ insights = <<>>
  /\ insightsSummary = Idle
  /\ nameMapFile \in { StoredNameMap, EmptyNameMap }
  /\ summary = Idle
  /\ bucket \in BOOLEAN
  /\ requests = [ r \in RequestIds |-> NewRequest ]
  /\ nameMapReads = 0
  /\ NotAnalysing /\ NotFiling /\ NotSpawning /\ NotGenerating

\* The fallback of loadNPINameMap: the local file, when it exists, is read
\* and assigned to npiNameMap
ReadLocalNameMap ==
  /\ npiNameMap' = IF nameMapFile # EmptyNameMap THEN nameMapFile ELSE npiNameMap
  /\ nameMapReads' = IF nameMapFile # EmptyNameMap THEN nameMapReads + 1 ELSE nameMapReads

\* loadNPINameMap() up to its first wait: the cached map is returned, or the
\* S3 request is sent, or (no bucket) the local file is read
LoadNPINameMap(r) ==
  /\ requests[r].pc = "start"
  /\ IF DOMAIN npiNameMap # {}
     THEN /\ requests' = [ requests EXCEPT ![r].pc = "insights" ]
          /\ UNCHANGED << npiNameMap, nameMapReads >>
     ELSE IF bucket
     THEN /\ requests' = [ requests EXCEPT ![r].pc = "nameMapS3" ]
          /\ UNCHANGED << npiNameMap, nameMapReads >>
     ELSE /\ requests' = [ requests EXCEPT ![r].pc = "insights" ]
          /\ ReadLocalNameMap
  /\ UNCHANGED << scoring, cohort, recoveryPlan, insights, insightsSummary, nameMapFile,
                  summary, bucket, analysing, filing, spawning, generating >>

\* loadNPINameMap() resumed by the S3 response: the object is parsed and
\* assigned, or the request failed and the local file is tried
NameMapS3Response(r) ==
  /\ requests[r].pc = "nameMapS3"
  /\ \E ok \in BOOLEAN :
       /\ ok => nameMapFile # EmptyNameMap
       /\ IF ok
          THEN /\ npiNameMap' = nameMapFile
               /\ nameMapReads' = nameMapReads + 1
          ELSE ReadLocalNameMap
  /\ requests' = [ requests EXCEPT ![r].pc = "insights" ]
  /\ UNCHANGED << scoring, cohort, recoveryPlan, insights, insightsSummary, nameMapFile,
                  summary, bucket, analysing, filing, spawning, generating >>

\* loadLocalData(): the local file's content, or null
loadLocalData == { "local", "nothing" }

\* GET after the name map: the S3 request for real_insights.json is sent, or
\* (no bucket) the local file is read
LoadInsights(r) ==
  /\ requests[r].pc = "insights"
  /\ IF bucket
     THEN requests' = [ requests EXCEPT ![r].pc = "insightsS3" ]
     ELSE \E from \in loadLocalData :
            requests' = [ requests EXCEPT ![r].pc = "loaded", ![r].readFrom = from ]
  /\ UNCHANGED << scoring, cohort, recoveryPlan, serving, bucket, nameMapReads,
                  analysing, filing, spawning, generating >>

\* GET resumed by the S3 response: the object is parsed, or the request
\* failed and the catch block calls loadLocalData()
InsightsS3Response(r) ==
  /\ requests[r].pc = "insightsS3"
  /\ \E from \in { "S3" } \cup loadLocalData :
       requests' = [ requests EXCEPT ![r].pc = "loaded", ![r].readFrom = from ]
  /\ UNCHANGED << scoring, cohort, recoveryPlan, serving, bucket, nameMapReads,
                  analysing, filing, spawning, generating >>

\* dataSource: bucket ? 'S3' : 'local'
dataSourceOf(r) == IF bucket THEN "S3" ELSE "local"

\* GET from the insights to its response (of the response: status, dataSource)
Respond(r) ==
  /\ requests[r].pc = "loaded"
  /\ requests' = [ requests EXCEPT
                     ![r].pc = "done",
                     ![r].response =
                        IF requests[r].readFrom = "nothing"
                        THEN [ status |-> 404, dataSource |-> "none" ]
                        ELSE [ status |-> 200, dataSource |-> dataSourceOf(r) ] ]
  /\ UNCHANGED << scoring, cohort, recoveryPlan, serving, bucket, nameMapReads,
                  analysing, filing, spawning, generating >>

NextLoad ==
  \E r \in RequestIds :
    \/ LoadNPINameMap(r)
    \/ NameMapS3Response(r)
    \/ LoadInsights(r)
    \/ InsightsS3Response(r)
    \/ Respond(r)

SpecLoad == InitLoad /\ [][NextLoad]_vars

\* C23: npi_name_map.json is read into the cache at most once, whatever the
\* sequence and interleaving of the requests.
NameMapLoadedOnce == route = "dashboard-summary" /\ pc = "serving" => nameMapReads <= 1

\* C25: a successful response says 'S3' exactly when its insights were read
\* from S3 and 'local' exactly when they were read from the local file.
DataSourceTellsOrigin ==
  route = "dashboard-summary" /\ pc = "serving" =>
    \A r \in RequestIds :
      (requests[r].pc = "done" /\ requests[r].response.status = 200) =>
        requests[r].response.dataSource = requests[r].readFrom

\* ------------------------------------------------------------ analyze POST
\* The request body's providers: undefined, or an array of `length` providers
Undefined == [ undefined |-> TRUE ]

ProviderLists ==
  { Undefined } \cup { [ length |-> n ] : n \in 0..MaxAnalyzeProviders }

\* real_insights.json as the RealInsights interface declares it (of it: the
\* folder it was read from, summary.totalMarketsAnalyzed, the number of
\* providerNetworks)
InsightsIn(folder) ==
  [ folder |-> folder, totalMarketsAnalyzed |-> 100, providerNetworks |-> 12 ]

\* What the try block of the insights load leaves in realInsights: the file
\* of the outputs folder, else the file of the public folder, null when
\* neither exists or the one read does not parse
LoadedInsights == { Undefined, InsightsIn("outputs"), InsightsIn("public") }

\* What the ML call leaves in mlResults: null when fetch throws, the
\* response is not OK or its body is null; else the body, an MLResponse
\* (of it: whether results is there, its length, summary.total_referrals
\* with 0 for a missing one)
MLResponses ==
  { Undefined }
    \cup [ hasResults : BOOLEAN, results : { 0, 2 }, total_referrals : { 0, 2 } ]

\* generateEnhancedDashboardData(providers, mlResults, realInsights): of the
\* object returned, summary.totalReferrals, summary.marketsAnalyzed (0 when
\* the branch sets none), the length of highRiskProviders and
\* modelPerformance.leakagePredictionAUC in hundredths (0 when the branch
\* returns no modelPerformance).  Reading providers.length of undefined throws.
generateEnhancedDashboardData(list, ml, real) ==
  IF ml # Undefined /\ ml.hasResults
  THEN IF ml.total_referrals = 0 /\ list = Undefined
       THEN [ throws |-> "TypeError" ]
       ELSE [ totalReferrals |-> IF ml.total_referrals # 0 THEN ml.total_referrals
                                 ELSE list.length,
              marketsAnalyzed |-> IF real = Undefined THEN 0 ELSE real.totalMarketsAnalyzed,
              highRiskProviders |-> ml.results,
              leakagePredictionAUC |-> 0 ]
  ELSE IF real # Undefined
  THEN [ totalReferrals |-> real.totalMarketsAnalyzed,
         marketsAnalyzed |-> real.totalMarketsAnalyzed,
         highRiskProviders |-> MathMin(real.providerNetworks, 10),
         leakagePredictionAUC |-> 95 ]
  ELSE [ totalReferrals |-> 2077483,
         marketsAnalyzed |-> 0,
         highRiskProviders |-> IF list = Undefined THEN 0 ELSE MathMin(list.length, 5),
         leakagePredictionAUC |-> 87 ]

InitAnalyze ==
  /\ pc = "start"
  /\ route = "analyze"
  /\ market = Idle
  /\ index = 0
  /\ row = Idle
  /\ scored = Idle
  /\ local = Idle
  /\ hrScored = Idle
  /\ prediction = Idle
  /\ cohort = Idle
  /\ recoveryPlan = Idle
  /\ NotServing
  /\ providers \in ProviderLists
  /\ realInsights = Undefined
  /\ mlResults = Undefined
  /\ enhancedData = Idle
  /\ NotLoading /\ NotFiling /\ NotSpawning /\ NotGenerating

\* POST: the insights are loaded
AnalyzeLoadInsights ==
  /\ route = "analyze"
  /\ pc = "start"
  /\ realInsights' \in LoadedInsights
  /\ pc' = "insights"
  /\ UNCHANGED << route, market, index, scored, local, row, hrScored, prediction,
                  cohort, recoveryPlan, serving, providers, mlResults, enhancedData,
                  loading, filing, spawning, generating >>

\* POST: the ML endpoint is called
AnalyzeCallML ==
  /\ route = "analyze"
  /\ pc = "insights"
  /\ mlResults' \in MLResponses
  /\ pc' = "scored"
  /\ UNCHANGED << route, market, index, scored, local, row, hrScored, prediction,
                  cohort, recoveryPlan, serving, providers, realInsights, enhancedData,
                  loading, filing, spawning, generating >>

\* POST: the data are generated and returned, or the catch block answers 500
AnalyzeRespond ==
  /\ route = "analyze"
  /\ pc = "scored"
  /\ enhancedData' =
       LET data == generateEnhancedDashboardData(providers, mlResults, realInsights)
       IN IF "throws" \in DOMAIN data
          THEN [ status |-> 500, error |-> "Analysis failed" ]
          ELSE [ status |-> 200 ] @@ data
  /\ pc' = "responded"
  /\ UNCHANGED << route, market, index, scored, local, row, hrScored, prediction,
                  cohort, recoveryPlan, serving, providers, realInsights, mlResults,
                  loading, filing, spawning, generating >>

NextAnalyze == AnalyzeLoadInsights \/ AnalyzeCallML \/ AnalyzeRespond

SpecAnalyze == InitAnalyze /\ [][NextAnalyze]_vars

\* C24: the response is built from the ML results when the ML call gave
\* results, otherwise from the loaded insights, otherwise from synthetic data,
\* and it is never an error response.
AnalyzeByPriority ==
  (route = "analyze" /\ pc = "responded") =>
    /\ enhancedData.status = 200
    /\ IF mlResults # Undefined /\ mlResults.hasResults
       THEN /\ enhancedData.leakagePredictionAUC = 0
            /\ enhancedData.highRiskProviders = mlResults.results
       ELSE IF realInsights # Undefined
       THEN /\ enhancedData.leakagePredictionAUC = 95
            /\ enhancedData.totalReferrals = realInsights.totalMarketsAnalyzed
       ELSE /\ enhancedData.leakagePredictionAUC = 87
            /\ enhancedData.totalReferrals = 2077483

\* C26: in high-risk-providers every provider's riskLevel is the level of its
\* emitted riskScore under the summary's thresholds ('high' iff > 70,
\* 'medium' iff > 50 and <= 70, 'low' iff <= 50).
RiskLevelAgreesWithScore ==
  HighRisk => hrScored.riskLevel = riskLevelOf(hrScored.riskScore, 1)

\* C29: every phase provider count of the plan is non-negative, the remainder
\* given to phase 3 included.
PhaseCountsNonNegative ==
  Planned =>
    \A p \in 1..3 : recoveryPlan.implementationPhases[p].providers >= 0

\* C29 witness: two providers, one to each of the first two phases, leave the
\* third phase exactly none
PhaseThreeEmpty ==
  /\ Planned
  /\ recoveryPlan.summary.totalProviders = 2
  /\ recoveryPlan.implementationPhases[1].providers = 1
  /\ recoveryPlan.implementationPhases[2].providers = 1
  /\ recoveryPlan.implementationPhases[3].providers = 0

\* ------------------------------------------------------------- FileHandler
\* Strings are sequences of characters.
\* s.indexOf(sep) from position `from`, 0 when there is none
IndexFrom(s, sep, from) ==
  IF \E i \in from..Len(s) : s[i] = sep
  THEN CHOOSE i \in from..Len(s) : s[i] = sep /\ \A j \in from..(i - 1) : s[j] # sep
  ELSE 0

RECURSIVE SplitAll(_, _)
\* s.split(sep): every piece between separators
SplitAll(s, sep) ==
  IF IndexFrom(s, sep, 1) = 0 THEN << s >>
  ELSE << SubSeq(s, 1, IndexFrom(s, sep, 1) - 1) >>
         \o SplitAll(SubSeq(s, IndexFrom(s, sep, 1) + 1, Len(s)), sep)

\* s.split(sep, limit): the first `limit` pieces of s.split(sep)
split(s, sep, limit) == sliceFirst(SplitAll(s, sep), limit)

\* isS3Path(path)
isS3Path(path) == startsWith(path, << "s", "3", ":", "/", "/" >>)

\* parseS3Path(s3Path): { bucket, key }, or the error thrown
parseS3Path(s3Path) ==
  IF ~isS3Path(s3Path) THEN [ throws |-> "Invalid S3 path" ]
  ELSE LET pathParts == split(SubSeq(s3Path, 6, Len(s3Path)), "/", 1)
       IN IF Len(pathParts) # 2 THEN [ throws |-> "Invalid S3 path format" ]
          ELSE [ bucket |-> pathParts[1], key |-> pathParts[2] ]

\* The paths handed to the FileHandler: s3://<bucket>/<key> as
\* ConfigManager.insightsPath and modelPath build them, and local paths
FilePaths ==
  { << "s", "3", ":", "/", "/", "b", "/", "k" >>,
    << "s", "3", ":", "/", "/", "r", "g", "/", "o", "/", "i", ".", "j" >>,
    << "s", "3", ":", "/", "/", "r", "g", "/", "m", "/", "r", ".", "p" >>,
    << "o", "/", "i", ".", "j" >>,
    << "m", "/", "r", ".", "p" >> }

\* A call: the method, its path, whether the constructor made an S3 client,
\* and what the request the method sends (S3 or /api/file) would come to
FileCalls ==
  [ method : { "readJson", "writeJson", "fileExists" },
    path : FilePaths,
    s3Client : BOOLEAN,
    request : { "ok", "NotFound", "fails" } ]

Nowhere == [ nowhere |-> TRUE ]

\* readJsonFromS3 / writeJsonToS3 / s3FileExists: the object addressed and
\* the value returned, or the error thrown
S3Operation(call) ==
  IF ~call.s3Client
  THEN IF call.method = "fileExists"
       THEN [ addressed |-> Nowhere, returned |-> "false" ]
       ELSE [ throws |-> "S3 client not initialized" ]
  ELSE IF "throws" \in DOMAIN parseS3Path(call.path)
  THEN parseS3Path(call.path)
  ELSE IF call.request = "ok"
  THEN [ addressed |-> parseS3Path(call.path),
         returned |-> IF call.method = "readJson" THEN "data" ELSE "true" ]
  ELSE IF call.method = "fileExists" /\ call.request = "NotFound"
  THEN [ addressed |-> parseS3Path(call.path), returned |-> "false" ]
  ELSE [ throws |-> "S3 request failed" ]

\* readJsonFromLocal / writeJsonToLocal, and fileExists on a local path
LocalOperation(call) ==
  IF call.method = "fileExists" THEN [ addressed |-> Nowhere, returned |-> "true" ]
  ELSE IF call.method = "writeJson"
  THEN [ addressed |-> Nowhere,
         returned |-> IF call.request = "ok" THEN "true" ELSE "false" ]
  ELSE IF call.request = "ok" THEN [ addressed |-> Nowhere, returned |-> "data" ]
  ELSE [ throws |-> "Failed to read file" ]

\* readJson / writeJson / fileExists: the catch block turns an error into
\* null (readJson) or false
FileOperation(call) ==
  LET done == IF isS3Path(call.path) THEN S3Operation(call) ELSE LocalOperation(call)
  IN IF "throws" \in DOMAIN done
     THEN [ addressed |-> Nowhere,
            returned |-> IF call.method = "readJson" THEN "null" ELSE "false" ]
     ELSE done

InitFile ==
  /\ pc = "called"
  /\ route = "FileHandler"
  /\ market = Idle
  /\ index = 0
  /\ row = Idle
  /\ scored = Idle
  /\ local = Idle
  /\ hrScored = Idle
  /\ prediction = Idle
  /\ cohort = Idle
  /\ recoveryPlan = Idle
  /\ NotServing
  /\ fileCall \in FileCalls
  /\ fileResult = Idle
  /\ NotLoading /\ NotAnalysing /\ NotSpawning /\ NotGenerating

\* readJson(path)
readJson ==
  /\ route = "FileHandler"
  /\ pc = "called"
  /\ fileCall.method = "readJson"
  /\ fileResult' = FileOperation(fileCall)
  /\ pc' = "returned"
  /\ UNCHANGED << route, market, index, scored, local, row, hrScored, prediction,
                  cohort, recoveryPlan, serving, fileCall, loading, analysing,
                  spawning, generating >>

\* writeJson(data, path)
writeJson ==
  /\ route = "FileHandler"
  /\ pc = "called"
  /\ fileCall.method = "writeJson"
  /\ fileResult' = FileOperation(fileCall)
  /\ pc' = "returned"
  /\ UNCHANGED << route, market, index, scored, local, row, hrScored, prediction,
                  cohort, recoveryPlan, serving, fileCall, loading, analysing,
                  spawning, generating >>

\* fileExists(path)
fileExists ==
  /\ route = "FileHandler"
  /\ pc = "called"
  /\ fileCall.method = "fileExists"
  /\ fileResult' = FileOperation(fileCall)
  /\ pc' = "returned"
  /\ UNCHANGED << route, market, index, scored, local, row, hrScored, prediction,
                  cohort, recoveryPlan, serving, fileCall, loading, analysing,
                  spawning, generating >>

NextFile == readJson \/ writeJson \/ fileExists

SpecFile == InitFile /\ [][NextFile]_vars

\* The bucket and the key of s3://<bucket>/<key>: what precedes and what
\* follows the first slash after the scheme
BucketOf(path) == SubSeq(path, 6, IndexFrom(path, "/", 6) - 1)

KeyOf(path) == SubSeq(path, IndexFrom(path, "/", 6) + 1, Len(path))

WellFormedS3Path(path) ==
  /\ isS3Path(path)
  /\ IndexFrom(path, "/", 6) > 6
  /\ IndexFrom(path, "/", 6) < Len(path)

\* C27: on a well-formed s3://<bucket>/<key> with an S3 client, readJson,
\* writeJson and fileExists address the object of that bucket and key, and
\* return null / false only when the S3 request fails.
S3ObjectAddressed ==
  (route = "FileHandler" /\ pc = "returned" /\ fileCall.s3Client
     /\ WellFormedS3Path(fileCall.path)) =>
    /\ fileResult.addressed = [ bucket |-> BucketOf(fileCall.path),
                               key |-> KeyOf(fileCall.path) ]
    /\ fileResult.returned \in { "null", "false" } => fileCall.request # "ok"

\* ------------------------------------------- the routes that spawn python3
\* analyze-cms is the GET that runs analyze_cms_data.py, ml-predict the POST
\* that runs ml_predict.py.  A child writes its stdout and stderr in chunks
\* and then closes with an exit code (-1: null, killed by a signal); when
\* python3 cannot be spawned it emits 'error' and nothing else.
StdoutTexts ==
  { << >>,
    << << "{", "}" >> >>,
    << << "{" >>, << "}" >> >>,
    << << "{" >> >>,
    << << "n", "u", "l", "l" >> >> }

StderrTexts == { << >>, << << "T", "r", "a", "c", "e" >> >> }

Children ==
  [ route : { "analyze-cms", "ml-predict" },
    spawned : BOOLEAN,
    state : { "running" },
    stdout : StdoutTexts,
    stderr : StderrTexts,
    code : { 0, 1, 0 - 1 } ]

\* JSON.parse(text): the kind of value, or SyntaxError
JSONParse(text) ==
  IF text = << "{", "}" >> THEN "object"
  ELSE IF text = << "n", "u", "l", "l" >> THEN "null"
  ELSE "SyntaxError"

\* The 'close' listener: the response it resolves the request with.
\* ml-predict reads result.predictions inside its try block, which throws on null.
closeResponse(which, code, data, error) ==
  IF code = 0
  THEN IF JSONParse(data) = "SyntaxError" \/ (which = "ml-predict" /\ JSONParse(data) = "null")
       THEN [ status |-> 500,
              error |-> IF which = "ml-predict" THEN "Failed to parse ML predictions"
                        ELSE "Invalid JSON output from Python script" ]
       ELSE [ status |-> 200, error |-> "" ]
  ELSE [ status |-> 500,
         error |-> IF which = "ml-predict" THEN "ML prediction failed"
                   ELSE "Python script failed" ]

InitChild ==
  /\ pc = "spawned"
  /\ route = "subprocess"
  /\ market = Idle
  /\ index = 0
  /\ row = Idle
  /\ scored = Idle
  /\ local = Idle
  /\ hrScored = Idle
  /\ prediction = Idle
  /\ cohort = Idle
  /\ recoveryPlan = Idle
  /\ NotServing
  /\ child \in { c \in Children : ~c.spawned => (c.stdout = << >> /\ c.stderr = << >> /\ c.code = 0 - 1) }
  /\ output = << >>
  /\ errorOutput = << >>
  /\ responses = << >>
  /\ NotLoading /\ NotAnalysing /\ NotFiling /\ NotGenerating

\* child.stdout.on('data'): the chunk is appended
StdoutData ==
  /\ route = "subprocess"
  /\ child.state = "running" /\ child.spawned
  /\ child.stdout # << >>
  /\ output' = output \o Head(child.stdout)
  /\ child' = [ child EXCEPT !.stdout = Tail(child.stdout) ]
  /\ UNCHANGED << scoring, cohort, recoveryPlan, serving, errorOutput, responses,
                  loading, analysing, filing, generating >>

\* child.stderr.on('data'): the chunk is appended
StderrData ==
  /\ route = "subprocess"
  /\ child.state = "running" /\ child.spawned
  /\ child.stderr # << >>
  /\ errorOutput' = errorOutput \o Head(child.stderr)
  /\ child' = [ child EXCEPT !.stderr = Tail(child.stderr) ]
  /\ UNCHANGED << scoring, cohort, recoveryPlan, serving, output, responses,
                  loading, analysing, filing, generating >>

\* 'close', emitted once the process has ended and both streams are closed:
\* the listener resolves the request
ChildClose ==
  /\ route = "subprocess"
  /\ child.state = "running" /\ child.spawned
  /\ child.stdout = << >> /\ child.stderr = << >>
  /\ responses' = Append(responses, closeResponse(child.route, child.code, output, errorOutput))
  /\ child' = [ child EXCEPT !.state = "closed" ]
  /\ UNCHANGED << scoring, cohort, recoveryPlan, serving, output, errorOutput,
                  loading, analysing, filing, generating >>

\* 'error', emitted when python3 cannot be spawned: neither route listens
\* for it, so the emitter throws it; 'close' does not follow and nothing
\* resolves the request
ChildError ==
  /\ route = "subprocess"
  /\ child.state = "running" /\ ~child.spawned
  /\ child' = [ child EXCEPT !.state = "uncaught" ]
  /\ UNCHANGED << scoring, cohort, recoveryPlan, serving, output, errorOutput, responses,
                  loading, analysing, filing, generating >>

NextChild == StdoutData \/ StderrData \/ ChildClose \/ ChildError

SpecChild == InitChild /\ [][NextChild]_vars

\* C28: once the child has emitted its last event, whatever the order of its
\* events, the request has received exactly one response: a success iff the
\* exit code is 0 and the accumulated stdout parses as JSON, otherwise a 500.
OneResponsePerRequest ==
  (route = "subprocess" /\ child.state # "running") =>
    /\ Len(responses) = 1
    /\ responses[1].status =
         IF child.spawned /\ child.code = 0 /\ JSONParse(output) # "SyntaxError"
         THEN 200 ELSE 500

\* ------------------------------------------------------ generateRiskFactors
\* The factors pushed by the four threshold tests, in their order
thresholdFactors(p) ==
  (IF Gt(p.marketShare, 70)
   THEN << [ label |-> "High Market Concentration", level |-> "Critical" ] >> ELSE << >>)
  \o (IF Gt(p.revenueAtRisk, 50000)
      THEN << [ label |-> "Above Market Rates", level |-> "High" ] >> ELSE << >>)
  \o (IF Gt(p.leakageRate, 30)
      THEN << [ label |-> "High Referral Leakage", level |-> "Medium" ] >> ELSE << >>)
  \o (IF Gt(p.riskScore, 85)
      THEN << [ label |-> "Critical Risk Score", level |-> "Critical" ] >> ELSE << >>)

\* specialtyRisks[provider.specialty], the empty sequence for undefined
specialtyRisks(specialty) ==
  IF specialty = "Emergency Medicine"
  THEN << [ label |-> "Volume Fluctuations", level |-> "Medium" ],
          [ label |-> "Competitive Pressure", level |-> "High" ] >>
  ELSE IF specialty = "Internal Medicine"
  THEN << [ label |-> "Referral Pattern Changes", level |-> "Medium" ],
          [ label |-> "Patient Retention", level |-> "Medium" ] >>
  ELSE IF specialty = "Cardiology"
  THEN << [ label |-> "Technology Dependencies", level |-> "Medium" ],
          [ label |-> "Specialist Competition", level |-> "High" ] >>
  ELSE IF specialty = "Obstetrics & Gynecology"
  THEN << [ label |-> "Demographic Shifts", level |-> "Medium" ],
          [ label |-> "Facility Competition", level |-> "High" ] >>
  ELSE IF specialty = "Pathology"
  THEN << [ label |-> "Lab Consolidation", level |-> "Medium" ],
          [ label |-> "Technology Disruption", level |-> "High" ] >>
  ELSE << >>

\* let idx: number, before the loop assigns it (and random before a draw)
Unassigned == 0 - 1

\* Math.random() in quarters: 0, 0.25, 0.5, 0.75
Randoms == { 0, 1, 2, 3 }

\* Math.floor(r * length), r in quarters
drawnIndex(r, length) == (r * length) \div 4

\* riskFactors.find(r => r.label === label) finds one
findsLabel(factors, label) == \E i \in 1..Len(factors) : factors[i].label = label

returnedFactors_Unsliced(factors) == factors

\* riskFactors.slice(0, 4)
returnedFactors(factors) == sliceFirst(factors, 4)

\* The providers handed to generateRiskFactors (of each: the fields it reads)
FactorInputs ==
  { [ marketShare |-> ms, leakageRate |-> IF IsNaN(ms) THEN NaN ELSE 100 - ms,
      revenueAtRisk |-> rar, riskScore |-> rs, specialty |-> sp ] :
      ms \in { NaN, 20, 50, 80 }, rar \in { 0, 60000 }, rs \in { NaN, 60, 90 },
      sp \in { "Cardiology", "Pathology", "Dermatology", "Unknown Specialty" } }

InitFactors ==
  /\ pc = "called"
  /\ route = "generateRiskFactors"
  /\ market = Idle
  /\ index = 0
  /\ row = Idle
  /\ scored = Idle
  /\ local = Idle
  /\ hrScored = Idle
  /\ prediction = Idle
  /\ cohort = Idle
  /\ recoveryPlan = Idle
  /\ NotServing
  /\ factorInput \in FactorInputs
  /\ riskFactors = << >>
  /\ idx = Unassigned
  /\ random = Unassigned
  /\ NotLoading /\ NotAnalysing /\ NotFiling /\ NotSpawning

\* The four threshold tests
FactorsByThreshold ==
  /\ route = "generateRiskFactors"
  /\ pc = "called"
  /\ riskFactors' = thresholdFactors(factorInput)
  /\ pc' = "specialty"
  /\ UNCHANGED << route, market, index, scored, local, row, hrScored, prediction,
                  cohort, recoveryPlan, serving, factorInput, idx, random,
                  loading, analysing, filing, spawning >>

\* if (specialtyRisks[provider.specialty]): one risk of the specialty is
\* drawn and pushed, and a second draw above 0.5 enters the do-while loop
FactorsBySpecialty ==
  /\ route = "generateRiskFactors"
  /\ pc = "specialty"
  /\ LET risks == specialtyRisks(factorInput.specialty)
     IN IF risks = << >>
        THEN /\ pc' = "finish"
             /\ UNCHANGED << riskFactors, random >>
        ELSE \E first \in Randoms, second \in Randoms :
               /\ riskFactors' = Append(riskFactors, risks[drawnIndex(first, Len(risks)) + 1])
               /\ random' = second
               /\ pc' = IF Len(risks) > 1 /\ second > 2 THEN "redraw" ELSE "finish"
  /\ UNCHANGED << route, market, index, scored, local, row, hrScored, prediction,
                  cohort, recoveryPlan, serving, factorInput, idx,
                  loading, analysing, filing, spawning >>

\* One pass of do { idx = ... } while (riskFactors.find(...)), and the push
\* that follows the loop when the pass leaves it
FactorsRedraw ==
  /\ route = "generateRiskFactors"
  /\ pc = "redraw"
  /\ LET risks == specialtyRisks(factorInput.specialty)
     IN \E r \in Randoms :
          /\ random' = r
          /\ idx' = drawnIndex(r, Len(risks))
          /\ IF findsLabel(riskFactors, risks[drawnIndex(r, Len(risks)) + 1].label)
             THEN pc' = "redraw" /\ UNCHANGED riskFactors
             ELSE /\ pc' = "finish"
                  /\ riskFactors' = Append(riskFactors, risks[drawnIndex(r, Len(risks)) + 1])
  /\ UNCHANGED << route, market, index, scored, local, row, hrScored, prediction,
                  cohort, recoveryPlan, serving, factorInput,
                  loading, analysing, filing, spawning >>

\* The default factor and the return
FactorsReturn ==
  /\ route = "generateRiskFactors"
  /\ pc = "finish"
  /\ riskFactors' =
       returnedFactors(IF Len(riskFactors) < 2
                       THEN Append(riskFactors,
                                   [ label |-> "General Market Volatility", level |-> "Low" ])
                       ELSE riskFactors)
  /\ pc' = "returned"
  /\ UNCHANGED << route, market, index, scored, local, row, hrScored, prediction,
                  cohort, recoveryPlan, serving, factorInput, idx, random,
                  loading, analysing, filing, spawning >>

NextFactors == FactorsByThreshold \/ FactorsBySpecialty \/ FactorsRedraw \/ FactorsReturn

\* The function runs on until it returns
SpecFactors == InitFactors /\ [][NextFactors]_vars /\ WF_vars(NextFactors)

FactorsReturned == route = "generateRiskFactors" /\ pc = "returned"

OneToFourDistinct ==
  /\ Len(riskFactors) \in 1..4
  /\ \A i, j \in 1..Len(riskFactors) :
       riskFactors[i].label = riskFactors[j].label => i = j

\* A pass of the loop has just drawn a risk that is already in riskFactors
DrewAgain ==
  /\ pc = "redraw"
  /\ idx # Unassigned
  /\ findsLabel(riskFactors, specialtyRisks(factorInput.specialty)[idx + 1].label)

\* C30 as stated: generateRiskFactors returns, whatever its random choices,
\* and what it returns is 1 to 4 risk factors with pairwise distinct labels.
FactorsAlwaysReturn ==
  /\ <>FactorsReturned
  /\ [](FactorsReturned => OneToFourDistinct)

\* C30 amended: generateRiskFactors returns unless every pass of its do-while
\* loop draws the risk already chosen, and what it returns is 1 to 4 risk
\* factors with pairwise distinct labels.
FactorsReturnUnlessSameDraw ==
  /\ <>FactorsReturned \/ <>[]DrewAgain
  /\ [](FactorsReturned => OneToFourDistinct)

\* C30 witness: a return after the loop has added the specialty's other risk
\* to three factors already there
ReturnedAfterRedraw ==
  /\ FactorsReturned
  /\ idx # Unassigned
  /\ Len(riskFactors) = 4
  /\ findsLabel(riskFactors, "Technology Dependencies")
  /\ findsLabel(riskFactors, "Specialist Competition")
=============================================================================
